---- MODULE Spec2Model ----
(***************************************************************************)
(* A model of src/src/main.ts (papunika-map-mirror), the current version   *)
(* of the script (lines 324-646): the Cache Index, the retry loops, the    *)
(* Resource Cache Writer, the pass-through fetcher, the document rewriter  *)
(* and the bulk phases, over a small upstream.                             *)
(*                                                                         *)
(* File names are sequences of one-character strings, so that the string   *)
(* tests of the code (startsWith, endsWith, length) are computed as the    *)
(* code computes them.                                                     *)
(***************************************************************************)
EXTENDS Integers, Sequences, FiniteSets, TLC

VARIABLES
    fs,        \* the output directory: path -> file content
    upver,     \* upstream: the version of the content it serves
    gone,      \* upstream: the URL it answers with 404, or None
    cfg,       \* the run configuration (flags and permissions)
    run,       \* the number of the current run
    phase,     \* the position of the top-level script
    outcome,   \* how the last run ended
    tasks,     \* the calls in flight in the current phase
    doc,       \* the parsed root document and its rewritten references
    zones,     \* the zones of the parsed world document
    faults,    \* the failures the environment may still inject in this run
    fetched,   \* history: the URLs requested in this run
    prev,      \* history: how the last finished run ended, and against which upstream
    ix,        \* one lookup of the Cache Index on its own (SpecIndex)
    tl,        \* one call of downloadTiles on its own (SpecTiles)
    em         \* one call of embedCssUrls on its own (SpecEmbed)

vars == <<fs, upver, gone, cfg, run, phase, outcome, tasks, doc, zones,
          faults, fetched, prev, ix, tl, em>>

runVars == <<fs, upver, gone, cfg, run, phase, outcome, tasks, doc, zones,
             faults, fetched, prev>>

\* no URL, no content
None == <<"none">>
\* no file name: what findExistingCachedFile returns when it finds nothing
NoFile == <<>>
\* the value of a call that returned nothing
Undefined == [undefined |-> TRUE]
IsUndefined(x) == "undefined" \in DOMAIN x

(***************************************************************************)
(* Strings                                                                 *)
(***************************************************************************)
StartsWith(s, p) == Len(s) >= Len(p) /\ SubSeq(s, 1, Len(p)) = p

EndsWith(s, p) == Len(s) >= Len(p) /\ SubSeq(s, Len(s) - Len(p) + 1, Len(s)) = p

\* the last index of character c in s, 0 when there is none
LastIndexOf(s, c) ==
    LET at == {k \in 1..Len(s) : s[k] = c}
    IN  IF at = {} THEN 0 ELSE CHOOSE k \in at : \A j \in at : j <= k

\* path.extname of a base name: from its last dot, unless that dot leads the name
extname(base) ==
    LET d == LastIndexOf(base, ".")
    IN  IF d <= 1 THEN <<>> ELSE SubSeq(base, d, Len(base))

\* path.basename(base, ext) of a base name: the suffix ext is removed
basename(base, ext) ==
    IF ext # <<>> /\ base # ext /\ EndsWith(base, ext)
    THEN SubSeq(base, 1, Len(base) - Len(ext))
    ELSE base

(***************************************************************************)
(* The Cache Index: findExistingCachedFile                                 *)
(***************************************************************************)
\* the length a fingerprint adds to a name: "-" and 32 hexadecimal digits
FingerprintSpan == 33

\* a variant of the test without the comparison of the lengths
MatchesAnyLength(file, name, ext) ==
    \/ file = name \o ext
    \/ StartsWith(file, name) /\ EndsWith(file, ext)

\* the test of one directory entry
FileMatches(file, name, ext) ==
    \/ file = name \o ext
    \/ /\ StartsWith(file, name)
       /\ EndsWith(file, ext)
       /\ Len(file) = Len(name) + Len(ext) + FingerprintSpan

\* the arguments after the two defaulting steps: a missing name is the base
\* name of dir, a missing ext is split off the name
IndexArgs(dir, name, ext) ==
    LET n1 == IF name = <<>> THEN dir[Len(dir)] ELSE name
        d1 == IF name = <<>> THEN SubSeq(dir, 1, Len(dir) - 1) ELSE dir
        e2 == IF ext = <<>> THEN extname(n1) ELSE ext
        n2 == IF ext = <<>> THEN basename(n1, e2) ELSE n1
    IN  [dir |-> d1, name |-> n2, ext |-> e2]

\* a variant of findExistingCachedFile that goes by the directory's entries
\* although the enumeration threw
FindDespiteError(listing, readErr, name, ext) ==
    LET hits == {f \in listing : FileMatches(f, name, ext)}
    IN  IF hits = {} THEN {NoFile} ELSE hits

\* what one call may return for a listing: the first matching entry in the
\* order readDir yields them (any order), nothing when none matches or the
\* enumeration throws
findExistingCachedFile(listing, readErr, name, ext) ==
    IF readErr # "ok" THEN {NoFile}
    ELSE LET hits == {f \in listing : FileMatches(f, name, ext)}
         IN  IF hits = {} THEN {NoFile} ELSE hits


(***************************************************************************)
(* Bounds of the model                                                     *)
(***************************************************************************)
\* failed responses and failed writes the environment injects in one run
MaxFaults == 1
\* failures the environment injects in one call under SpecRetry
MaxRetries == 3
\* versions of the upstream content
MaxVer == 2
\* runs of the script over one output directory
MaxRuns == 2
\* the largest maxZoom SpecTiles passes to downloadTiles
MaxZoom == 4

(***************************************************************************)
(* Names of the mirrored site                                              *)
(***************************************************************************)
WordChars ==
    {"a","b","c","d","e","f","g","h","i","j","k","l","m","n","o","p","q","r",
     "s","t","u","v","w","x","y","z","A","B","C","D","E","F","G","H","I","J",
     "K","L","M","N","O","P","Q","R","S","T","U","V","W","X","Y","Z","0","1",
     "2","3","4","5","6","7","8","9","_"}

Digits == <<"0","1","2","3","4","5","6","7","8","9">>

\* the decimal text of a number below 100
NumChars(n) == IF n < 10 THEN <<Digits[n + 1]>> ELSE <<Digits[(n \div 10) + 1], Digits[(n % 10) + 1]>>

sMap == <<"m","a","p">>
sStatic == <<"s","t","a","t","i","c">>
sCss == <<"c","s","s">>
sJs == <<"j","s">>
sAssets == <<"a","s","s","e","t","s">>
sData == <<"d","a","t","a">>
sZones == <<"z","o","n","e","s">>
sUs == <<"u","s">>
sPublic == <<"p","u","b","l","i","c">>
sTiles == <<"t","i","l","e","s">>
sOverworld == <<"o","v","e","r","w","o","r","l","d">>
sRapport == <<"R","a","p","p","o","r","t">>
sIsland == <<"I","s","l","a","n","d">>
sMedia == <<"m","e","d","i","a">>
xPng == <<".","p","n","g">>
xJpg == <<".","j","p","g">>
xJson == <<".","j","s","o","n">>
sIndexHtml == <<"i","n","d","e","x",".","h","t","m","l">>

\* the text of the identifiers that occur in URLs
IdChars(id) ==
    CASE id = "island" -> <<"i","s","l","a","n","d">>
      [] id = "boss" -> <<"b","o","s","s">>
      [] id = "00000" -> <<"0","0","0","0","0">>
      [] id = "z1" -> <<"1","0","1">>
      [] id = "m1" -> <<"m","1",".","p","n","g">>
      [] id = "m1x" -> <<"m","1","-">> \o [k \in 1..32 |-> "0"] \o <<".","p","n","g">>
      [] id = "r1" -> <<"7">>
      [] OTHER -> <<"x">>

(***************************************************************************)
(* URLs.  A URL is a tuple: the template that builds it and the template's *)
(* arguments.                                                              *)
(***************************************************************************)
rootUrl == <<"root">>
world == <<"world">>
\* the list of named assets, cut to the entry that occurs twice
assets == <<"boss", "boss">>

\* the path of a URL below the origin, as segments
UrlPath(u) ==
    CASE u[1] = "root" -> <<sMap>>
      [] u[1] = "css" -> <<sMap, sStatic, sCss, <<"s","t","y","l","e",".","m","i","n",".","c","s","s">> >>
      [] u[1] = "img" -> <<sMap, sStatic, sCss, <<"b","g",".","p","n","g">> >>
      [] u[1] = "js" -> <<sMap, sStatic, sJs, <<"m","a","p",".","j","s">> >>
      [] u[1] = "js2" -> <<sMap, sStatic, sJs, <<"m","a","p",".","m","i","n",".","j","s">> >>
      [] u[1] = "cfjs" -> << <<"c","d","n","-","c","g","i">>, <<"r","o","c","k","e","t",".","j","s">> >>
      [] u[1] = "fonts" -> << sCss >>
      [] u[1] = "asset" -> <<sMap, sAssets, IdChars(u[2]) \o xPng>>
      [] u[1] = "world" -> <<sMap, sData, sZones, sUs, sOverworld \o xJson>>
      [] u[1] = "zonejson" -> <<sMap, sData, sZones, sUs, IdChars(u[2]) \o xJson>>
      [] u[1] = "media" -> <<sMap, sMedia, IdChars(u[2])>>
      [] u[1] = "rapport" -> <<sAssets, sRapport, <<"r","a","p","p","o","r","t","_","n","p","c","_">> \o IdChars(u[2]) \o xPng>>
      [] u[1] = "icon" -> <<sMap, sAssets, sZones, IdChars(u[2]) \o xPng>>
      [] u[1] = "island" -> <<sAssets, sIsland, <<"i","s","l","a","n","d","_">> \o IdChars(u[2]) \o xPng>>
      [] u[1] = "tile" ->
            IF u[2] = "overworld"
            THEN <<sMap, sPublic, sTiles, sOverworld, NumChars(u[3]) \o <<"_">> \o NumChars(u[4]) \o <<"_">> \o NumChars(u[5]) \o xJpg>>
            ELSE <<sMap, sPublic, sTiles, sZones, IdChars(u[2]), NumChars(u[3]) \o <<"_">> \o NumChars(u[4]) \o <<"_">> \o NumChars(u[5]) \o xPng>>

\* url.startsWith(origin): every URL of the model but the font host's
OnOrigin(u) == u[1] # "fonts"

\* the first occurrence of the literal pat in s, 0 when there is none
IndexOf(s, pat) ==
    LET at == {k \in 1..(Len(s) - Len(pat) + 1) : SubSeq(s, k, k + Len(pat) - 1) = pat}
    IN  IF at = {} THEN 0 ELSE CHOOSE k \in at : \A j \in at : k <= j

\* s.replace(pat, rep) for a literal pat: the first occurrence only
ReplaceFirst(s, pat, rep) ==
    LET k == IndexOf(s, pat)
    IN  IF k = 0 THEN s ELSE SubSeq(s, 1, k - 1) \o rep \o SubSeq(s, k + Len(pat), Len(s))

\* the end of the longest run of word characters of s that starts at k (k - 1 when s[k] is none)
WordRunEnd(s, k) ==
    LET ends == {j \in (k - 1)..Len(s) : \A m \in k..j : s[m] \in WordChars}
    IN  CHOOSE j \in ends : \A m \in ends : m <= j

\* where a match of /-\w+\.\w+\.\w+\./ that starts at p ends, 0 when none does
HashedInfixEnd(s, p) ==
    LET a == WordRunEnd(s, p + 1)
        b == WordRunEnd(s, a + 2)
        c == WordRunEnd(s, b + 2)
        dot(k) == k <= Len(s) /\ s[k] = "."
    IN  IF s[p] = "-" /\ a >= p + 1 /\ dot(a + 1) /\ b >= a + 2 /\ dot(b + 1) /\ c >= b + 2 /\ dot(c + 1)
        THEN c + 1 ELSE 0

\* s.replace(/-\w+\.\w+\.\w+\./, '.')
StripHashedInfix(s) ==
    LET at == {p \in 1..Len(s) : HashedInfixEnd(s, p) # 0}
    IN  IF at = {} THEN s
        ELSE LET p == CHOOSE k \in at : \A j \in at : k <= j
             IN  SubSeq(s, 1, p - 1) \o <<".">> \o SubSeq(s, HashedInfixEnd(s, p) + 1, Len(s))

\* s.replace(/@.*$/, '')
StripVersion(s) ==
    LET k == IndexOf(s, <<"@">>)
    IN  IF k = 0 THEN s ELSE SubSeq(s, 1, k - 1)

\* the logical file name of a URL: the three replacements applied in turn
\* to the URL's last segment (each result is bound as a value, so that it is
\* computed once)
sanitizedBasename(u) ==
    CHOOSE r \in {StripVersion(s2) : s2 \in
                 {StripHashedInfix(s1) : s1 \in
                     {ReplaceFirst(base, <<".","m","i","n",".">>, <<".">>) :
                         base \in {UrlPath(u)[Len(UrlPath(u))]}}}} : TRUE


(***************************************************************************)
(* Contents.  <<"body", u, v>> is what the upstream serves for URL u at    *)
(* version v; the transforms, the document serializer and an unfinished    *)
(* write wrap it.                                                          *)
(***************************************************************************)
Body(u, v) == <<"body", u, v>>

\* a file that was opened for writing c and not written to the end
Partial(c) == <<"part", c>>

\* a response without content
Empty == <<"empty">>

\* the url(...) references of a stylesheet, in the order of the text
CssRefs(css) == IF css = Empty THEN <<>> ELSE << <<"anchor">>, <<"img">> >>

\* embedCssUrls, once every sub-resource is fetched: the text with the
\* references replaced by the data: URIs of the fetched bodies
Inlined(css, subs) == <<"inl", css, subs>>

\* replaceJsPapunikaUrls
replaceJsPapunikaUrls(js) == <<"rw", js>>

\* $.html(): the root document with its current head references
Html(d) == <<"html", d.body, d.links, d.scripts>>

HexDigits == <<"0","1","2","3","4","5","6","7","8","9","a","b","c","d","e","f">>

\* a number below 16 for each URL whose content is fingerprinted
UrlCode(u) == CASE u[1] = "css" -> 1 [] u[1] = "img" -> 2 [] u[1] = "js" -> 3 [] u[1] = "js2" -> 5 [] OTHER -> 4

\* the digits that tell a content from every other content
RECURSIVE ContentCode(_)
ContentCode(c) ==
    CASE c = <<>> -> <<5>>
      [] c[1] = "body" -> <<1, UrlCode(c[2]), c[3]>>
      [] c[1] = "inl" -> <<2>> \o ContentCode(c[2]) \o (IF c[3] = <<>> THEN <<>> ELSE ContentCode(c[3][1]))
      [] c[1] = "rw" -> <<3>> \o ContentCode(c[2])
      [] c[1] = "part" -> <<4>> \o ContentCode(c[2])
      [] OTHER -> <<6>>

\* createHash('md5').update(c).toString('hex'): 32 hexadecimal digits, taken
\* to be free of collisions
md5(c) ==
    CHOOSE r \in {[k \in 1..32 |-> IF k <= Len(code) THEN HexDigits[code[k] + 1] ELSE "0"] :
                     code \in {ContentCode(c)}} : TRUE

\* the zones of the world document
WorldZones(v) == << [id |-> "z1", markerType |-> IF v = 0 THEN 0 ELSE IF v = 1 THEN 1 ELSE 2] >>

\* a version of the upstream whose zone shows two media, m1.png and
\* m1-00000000000000000000000000000000.png
TwinVer == MaxVer + 1

\* the markers of a zone document; in version 0 of the upstream two markers
\* of the zone share their media and their rapport icon
ZoneMarkers(id, v) ==
    IF id = "00000"
    THEN << [data |-> << [popupMedia |-> "http", rapportId |-> ""] >>] >>
    ELSE IF v = TwinVer
    THEN << [data |-> << [popupMedia |-> "m1", rapportId |-> ""], [popupMedia |-> "m1x", rapportId |-> ""] >>] >>
    ELSE IF v = 0
    THEN << [data |-> << [popupMedia |-> "m1", rapportId |-> "r1"] >>],
            [data |-> << [popupMedia |-> "m1", rapportId |-> "r1"] >>] >>
    ELSE << [data |-> << [popupMedia |-> "m1", rapportId |-> "r1"] >>] >>

\* what JSON.parse gives when it throws
SyntaxError == [error |-> "SyntaxError"]
Throws(x) == "error" \in DOMAIN x

\* JSON.parse of a file's or a response's content
JsonParse(c) ==
    IF c # <<>> /\ c[1] = "body" /\ c[2] = <<"world">> THEN [zones |-> WorldZones(c[3])]
    ELSE IF c # <<>> /\ c[1] = "body" /\ c[2][1] = "zonejson" THEN [markers |-> ZoneMarkers(c[2][2], c[3])]
    ELSE SyntaxError

(***************************************************************************)
(* The output directory                                                    *)
(***************************************************************************)
\* the entries Deno.readDir(dir) yields: files and sub-directories
ReadDir(files, dir) ==
    UNION {{p[Len(d) + 1] : p \in {q \in DOMAIN files : Len(q) > Len(d) /\ SubSeq(q, 1, Len(d)) = d}} : d \in {dir}}

\* files with path p holding content c
Put(files, p, c) ==
    CHOOSE r \in {[q \in (DOMAIN files) \cup {at} |-> IF q = at THEN c ELSE files[q]] : at \in {p}} : TRUE

\* a variant of the target of a pass-through URL that is the same for all
SinglePath(u) == <<sData>>

\* the target of a pass-through URL below outdir: the URL with rootUrl, or
\* else origin, cut off
Filepath(u) ==
    LET path == UrlPath(u)
    IN  IF StartsWith(path[1], sMap)
        THEN (IF path[1] = sMap THEN <<>> ELSE <<SubSeq(path[1], Len(sMap) + 1, Len(path[1]))>>) \o Tail(path)
        ELSE path

\* a variant of backoff(i) that grows by 250 with each attempt
BackoffLinear(i) == (i + 1) * 250

\* backoff(i)
backoff(i) == (2 ^ i) * 250


(***************************************************************************)
(* Calls.  A task is one call of fetchRootPage ("root"), cacheResourceFile *)
(* ("cache") or tryPublicFetchOrCached ("public"), at one of its awaits:   *)
(*   lookup  the directory listing of findExistingCachedFile               *)
(*   fetch   the response of fetchSuccess(url)                             *)
(*   sub     the response of a sub-resource fetch of embedCssUrls          *)
(*   write   Deno.writeFile, the file opened and truncated                 *)
(*   read    Deno.readFile of the cached file that is to be parsed         *)
(*   sleep   the timer of sleep(backoff(i))                                *)
(* or settled: done (resolved with out) or failed (rejected).              *)
(* how, was, reqs, slept, saw404, writes, status (that of the response the *)
(* call took for a success) and err (how the lookup's Deno.readDir ended)  *)
(* are history: they record what the call did and decide nothing.          *)
(***************************************************************************)
NewTask(fn, url, prefix, mutate, parse, pc) ==
    [fn |-> fn, url |-> url, prefix |-> prefix, mutate |-> mutate, parse |-> parse,
     pc |-> pc, i |-> 0, existing |-> NoFile, buf |-> None, subs |-> <<>>, k |-> 0,
     timer |-> 0, out |-> IF fn = "public" THEN Undefined ELSE None,
     how |-> "", was |-> None, reqs |-> IF pc = "fetch" THEN 1 ELSE 0,
     slept |-> <<>>, saw404 |-> FALSE, writes |-> 0, status |-> 0, err |-> ""]

\* fetchRootPage(): the request is issued at once
fetchRootPage == NewTask("root", rootUrl, <<>>, "none", FALSE, "fetch")

\* cacheResourceFile(url, prefix, mutate), up to its first await
cacheResourceFile(url, prefix, mutate, canReuseCache) ==
    NewTask("cache", url, prefix, mutate, FALSE, IF canReuseCache THEN "lookup" ELSE "fetch")

\* tryPublicFetchOrCached(url, parse), up to its first await
tryPublicFetchOrCached(url, parse, canReuseCache) ==
    NewTask("public", url, <<>>, "none", parse,
            IF ~OnOrigin(url) THEN "failed" ELSE IF canReuseCache THEN "lookup" ELSE "fetch")

\* the logical name of a cached resource and its extension
CacheName(u) ==
    CHOOSE r \in {[filename |-> basename(sanitized, ext), extname |-> ext] :
                     sanitized \in {sanitizedBasename(u)}, ext \in {extname(sanitizedBasename(u))}} : TRUE

\* a variant of filenameWithHash: the name without the digest
LegacyName(u, contents) == CacheName(u).filename \o CacheName(u).extname

\* filenameWithHash
filenameWithHash(u, contents) ==
    CHOOSE r \in {c.filename \o <<"-">> \o md5(contents) \o c.extname : c \in {CacheName(u)}} : TRUE

\* the path a task writes its buffer to, below outdir
WritePath(t) ==
    CHOOSE r \in {IF t.fn = "cache" THEN t.prefix \o <<filenameWithHash(t.url, t.buf)>> ELSE Filepath(t.url)} : TRUE

\* the arguments of the task's Cache Index lookup
LookupArgs(t) ==
    IF t.fn = "cache"
    THEN CHOOSE r \in {IndexArgs(t.prefix, c.filename, c.extname) : c \in {CacheName(t.url)}} : TRUE
    ELSE CHOOSE r \in {IndexArgs(fp, <<>>, <<>>) : fp \in {Filepath(t.url)}} : TRUE

\* fetchSuccess: the statuses that do not throw BadStatusCodeError (res.ok)
fetchSuccess(status) == status \in 200..299

\* the statuses the upstream may answer a request for u with; 0 is a
\* transport error.  200 and 404 are what the upstream holds, the others
\* are injected failures
Statuses(u, gone404, budget) ==
    (IF u = gone404 THEN {404} ELSE {200}) \cup (IF budget THEN {500, 0} ELSE {})

\* variants of the early return: never taken, taken only under --refresh
ReuseNever(existing, refresh) == FALSE
ReuseOnRefresh(existing, refresh) == existing # NoFile /\ refresh

\* "if (existing && !refresh)": the early return of both cache functions
ReuseBranch(existing, refresh) == existing # NoFile /\ ~refresh

\* a variant of the catch block that throws the error on
CatchRethrow(t) == [t EXCEPT !.pc = "failed", !.buf = None, !.status = 0]

\* the catch block of the three retry loops, for an error that is not a 404
\* of tryPublicFetchOrCached: the stale copy if one was found, else a sleep
Catch(t) ==
    IF t.fn # "root" /\ t.existing # NoFile
    THEN IF t.fn = "cache"
         THEN [t EXCEPT !.pc = "done", !.out = t.prefix \o <<t.existing>>, !.how = "stale", !.buf = None, !.status = 0]
         ELSE [t EXCEPT !.pc = IF t.parse THEN "read" ELSE "done", !.how = "stale", !.buf = None, !.status = 0]
    ELSE [t EXCEPT !.pc = "sleep", !.timer = backoff(t.i), !.i = t.i + 1, !.buf = None, !.status = 0]

\* the task with its request issued
Request(t) == [t EXCEPT !.pc = "fetch", !.reqs = t.reqs + 1]


(***************************************************************************)
(* The steps of a call                                                     *)
(***************************************************************************)
FileAt(files, p) == IF p \in DOMAIN files THEN files[p] ELSE None

\* the URLs whose request the tasks ts have in flight
Requested(ts) == {ts[n].url : n \in {m \in DOMAIN ts : ts[m].pc = "fetch"}}

\* the next reference of the stylesheet after the k-th that embedCssUrls
\* fetches (one that does not start with '#'), 0 when there is none
NextRef(css, k) ==
    LET refs == CssRefs(css)
        at == {j \in (k + 1)..Len(refs) : refs[j] # <<"anchor">>}
    IN  IF at = {} THEN 0 ELSE CHOOSE j \in at : \A m \in at : j <= m

\* Deno.mkdir and the start of Deno.writeFile: the target exists, truncated
BeginWrite(n, t, contents) ==
    LET t1 == [t EXCEPT !.pc = "write", !.buf = contents, !.writes = t.writes + 1]
    IN  /\ tasks' = [tasks EXCEPT ![n] = t1]
        /\ fs' = Put(fs, WritePath(t1), Partial(contents))

\* the directory dir exists below outdir: some file lies in it
DirExists(files, dir) ==
    \E d \in {dir} : \E p \in DOMAIN files : Len(p) > Len(d) /\ SubSeq(p, 1, Len(d)) = d

\* how Deno.readDir(dir) ends when nothing goes wrong: it throws NotFound
\* for a directory that does not exist
ReadErr(files, dir) == IF DirExists(files, dir) THEN "ok" ELSE "NotFound"

\* how Deno.readDir(dir) may end when the enumeration may fail
ReadErrs(files, dir) == {ReadErr(files, dir), "PermissionDenied", "Other"}

\* findExistingCachedFile answers after Deno.readDir ended as one of errs,
\* and the call returns the cached file or issues its first request
Find(n, errs) ==
    LET t == tasks[n]
    IN  /\ t.pc = "lookup"
        /\ \E a \in {LookupArgs(t)}, err \in errs :
            \E f \in findExistingCachedFile(ReadDir(fs, a.dir), err, a.name, a.ext) :
              LET t1 == [t EXCEPT !.existing = f, !.was = FileAt(fs, a.dir \o <<f>>), !.err = err]
              IN  IF ReuseBranch(f, cfg.refresh)
                  THEN /\ tasks' = [tasks EXCEPT ![n] =
                              IF t.fn = "cache"
                              THEN [t1 EXCEPT !.pc = "done", !.out = t.prefix \o <<f>>, !.how = "reused"]
                              ELSE [t1 EXCEPT !.pc = IF t.parse THEN "read" ELSE "done", !.how = "reused"]]
                       /\ UNCHANGED fetched
                  ELSE /\ tasks' = [tasks EXCEPT ![n] = Request(t1)]
                       /\ fetched' = fetched \cup {t.url}
        /\ UNCHANGED <<fs, upver, gone, cfg, run, phase, outcome, doc, zones, faults, prev, ix, tl, em>>

\* findExistingCachedFile answers, and the call returns the cached file or
\* issues its first request
Lookup(n) == Find(n, {ReadErr(fs, LookupArgs(tasks[n]).dir)})

\* the statuses the upstream may answer a request for u with when it may
\* answer with any status: besides those of Statuses, 204 No Content, a 301
\* that fetch hands to the caller, and 403
WideStatuses(u, gone404, budget) ==
    Statuses(u, gone404, budget) \cup (IF budget THEN {204, 301, 403} ELSE {})

\* the content of a response: only a 200 carries the resource
ResponseBody(u, v, st) == IF st = 200 THEN Body(u, v) ELSE Empty

\* the response to the request of a retry loop arrives, its status one of sts
Answer(n, sts) ==
    LET t0 == tasks[n]
    IN  /\ t0.pc = "fetch"
        /\ \E st \in sts :
              LET body == ResponseBody(t0.url, upver, st)
                  t == [t0 EXCEPT !.status = st]
              IN  IF fetchSuccess(st)
                  THEN /\ faults' = IF st = 200 THEN faults ELSE faults - 1
                       /\ IF t.fn = "root"
                          THEN /\ tasks' = [tasks EXCEPT ![n] = [t EXCEPT !.pc = "done", !.out = body, !.how = "fetched"]]
                               /\ UNCHANGED <<fs, fetched>>
                          ELSE IF t.mutate = "embed" /\ NextRef(body, 0) # 0
                          THEN /\ tasks' = [tasks EXCEPT ![n] = [t EXCEPT !.pc = "sub", !.buf = body, !.subs = <<>>, !.k = NextRef(body, 0)]]
                               /\ fetched' = fetched \cup {CssRefs(body)[NextRef(body, 0)]}
                               /\ UNCHANGED fs
                          ELSE /\ BeginWrite(n, t, CASE t.mutate = "embed" -> Inlined(body, <<>>)
                                                     [] t.mutate = "rewrite" -> replaceJsPapunikaUrls(body)
                                                     [] OTHER -> body)
                               /\ UNCHANGED fetched
                  ELSE IF st = 404 /\ t0.fn = "public"
                  THEN /\ tasks' = [tasks EXCEPT ![n] = [t0 EXCEPT !.pc = "done", !.out = Undefined, !.how = "notfound", !.saw404 = TRUE]]
                       /\ UNCHANGED <<fs, faults, fetched>>
                  ELSE /\ faults > 0
                       /\ faults' = faults - 1
                       /\ tasks' = [tasks EXCEPT ![n] = Catch([t0 EXCEPT !.saw404 = t0.saw404 \/ st = 404])]
                       /\ UNCHANGED <<fs, fetched>>
        /\ UNCHANGED <<upver, gone, cfg, run, phase, outcome, doc, zones, prev, ix, tl, em>>

\* the response to the request of a retry loop arrives
Respond(n) == Answer(n, Statuses(tasks[n].url, gone, faults > 0))

\* the response to a sub-resource request of embedCssUrls arrives
SubRespond(n) ==
    LET t == tasks[n]
        ref == CssRefs(t.buf)[t.k]
    IN  /\ t.pc = "sub"
        /\ \E st \in Statuses(ref, gone, faults > 0) :
              IF fetchSuccess(st)
              THEN LET got == Append(t.subs, Body(ref, upver))
                   IN  /\ UNCHANGED faults
                       /\ IF NextRef(t.buf, t.k) # 0
                          THEN /\ tasks' = [tasks EXCEPT ![n] = [t EXCEPT !.subs = got, !.k = NextRef(t.buf, t.k)]]
                               /\ fetched' = fetched \cup {CssRefs(t.buf)[NextRef(t.buf, t.k)]}
                               /\ UNCHANGED fs
                          ELSE /\ BeginWrite(n, [t EXCEPT !.subs = <<>>, !.k = 0], Inlined(t.buf, got))
                               /\ UNCHANGED fetched
              ELSE /\ faults > 0
                   /\ faults' = faults - 1
                   /\ tasks' = [tasks EXCEPT ![n] = Catch([t EXCEPT !.subs = <<>>, !.k = 0])]
                   /\ UNCHANGED <<fs, fetched>>
        /\ UNCHANGED <<upver, gone, cfg, run, phase, outcome, doc, zones, prev, ix, tl, em>>


\* Deno.writeFile completes: the target holds the whole buffer
WriteEnd(n) ==
    LET t == tasks[n]
    IN  /\ t.pc = "write"
        /\ fs' = Put(fs, WritePath(t), t.buf)
        /\ tasks' = [tasks EXCEPT ![n] =
              IF t.fn = "cache"
              THEN [t EXCEPT !.pc = "done", !.out = WritePath(t), !.how = "written", !.buf = None]
              ELSE IF ~t.parse
              THEN [t EXCEPT !.pc = "done", !.how = "written", !.buf = None]
              ELSE IF Throws(JsonParse(t.buf))
              THEN Catch(t)
              ELSE [t EXCEPT !.pc = "done", !.out = JsonParse(t.buf), !.how = "written", !.buf = None]]
        /\ UNCHANGED <<upver, gone, cfg, run, phase, outcome, doc, zones, faults, fetched, prev, ix, tl, em>>

\* Deno.writeFile throws after the target was truncated
WriteFail(n) ==
    LET t == tasks[n]
    IN  /\ t.pc = "write"
        /\ faults > 0
        /\ faults' = faults - 1
        /\ tasks' = [tasks EXCEPT ![n] = Catch(t)]
        /\ UNCHANGED <<fs, upver, gone, cfg, run, phase, outcome, doc, zones, fetched, prev, ix, tl, em>>

\* the timer of sleep(time) fires and the loop issues the next request
TimerFire(n) ==
    LET t == tasks[n]
    IN  /\ t.pc = "sleep"
        /\ tasks' = [tasks EXCEPT ![n] = Request([t EXCEPT !.slept = Append(t.slept, t.timer), !.timer = 0])]
        /\ fetched' = fetched \cup {t.url}
        /\ UNCHANGED <<fs, upver, gone, cfg, run, phase, outcome, doc, zones, faults, prev, ix, tl, em>>

\* Deno.readFile(filepath) and JSON.parse of the cached file
Read(n) ==
    LET t == tasks[n]
        p == Filepath(t.url)
    IN  /\ t.pc = "read"
        /\ tasks' = [tasks EXCEPT ![n] =
              IF p \notin DOMAIN fs \/ Throws(JsonParse(FileAt(fs, p)))
              THEN [t EXCEPT !.pc = "failed"]
              ELSE [t EXCEPT !.pc = "done", !.out = JsonParse(fs[p])]]
        /\ UNCHANGED <<fs, upver, gone, cfg, run, phase, outcome, doc, zones, faults, fetched, prev, ix, tl, em>>

(***************************************************************************)
(* The top-level script                                                    *)
(***************************************************************************)
\* no run is going on: the flags are not read yet
NoConfig ==
    [refresh |-> FALSE, canReuseCache |-> FALSE, shouldDownloadTiles |-> FALSE,
     shouldDownloadAssets |-> FALSE, shouldDownloadZones |-> FALSE, shouldDownloadZoneIcons |-> FALSE]

\* an output directory without files
EmptyDir == [p \in {} |-> None]

NoDoc == [body |-> None, links |-> <<>>, scripts |-> <<>>, n |-> 0, hows |-> <<>>]

\* $('head link[rel="stylesheet"]') and $('head script') of the root page;
\* version 0 of the page loads a second script, map.min.js
StyleLinks(body) == << <<"fonts">>, <<"css">> >>
HeadScripts(body) ==
    IF Len(body) = 3 /\ body[3] = 0 THEN << <<"cfjs">>, <<"js">>, <<"js2">> >> ELSE << <<"cfjs">>, <<"js">> >>

CssPrefix == <<sStatic, sCss>>
JsPrefix == <<sStatic, sJs>>

AllSettled(ts) == \A n \in DOMAIN ts : ts[n].pc \in {"done", "failed"}

\* a variant of AllDone that is content with the first call to resolve
AnyDone(ts) == \E n \in DOMAIN ts : ts[n].pc = "done"

\* Promise.all of the calls ts resolves
AllDone(ts) == \A n \in DOMAIN ts : ts[n].pc = "done"

\* the run ends, "done" or with the name of the uncaught error; what is
\* left of it is the output directory
EndRun(how) ==
    /\ phase' = "off"
    /\ outcome' = how
    /\ tasks' = <<>>
    /\ doc' = NoDoc
    /\ zones' = <<>>
    /\ cfg' = NoConfig
    /\ faults' = 0
    /\ fetched' = {}
    /\ prev' = [outcome |-> how, canReuseCache |-> cfg.canReuseCache,
                refreshed |-> prev.refreshed \/ cfg.refresh, up |-> <<upver, gone>>, fs |-> fs]

\* the configurations a run may start with: --refresh or not, read access
\* granted or not, and either no --no-... flag but --no-tiles or all of them
Configs ==
    {[refresh |-> r, canReuseCache |-> c, shouldDownloadTiles |-> FALSE,
      shouldDownloadAssets |-> a, shouldDownloadZones |-> a, shouldDownloadZoneIcons |-> a] :
        r \in BOOLEAN, c \in BOOLEAN, a \in BOOLEAN}

\* the script starts: permissions and flags are read, fetchRootPage is called
StartRun ==
    /\ phase = "off"
    /\ run < MaxRuns
    /\ \E c \in Configs : cfg' = c
    /\ run' = run + 1
    /\ phase' = "root"
    /\ tasks' = <<fetchRootPage>>
    /\ faults' = MaxFaults
    /\ fetched' = {rootUrl}
    /\ outcome' = "none"
    /\ UNCHANGED <<fs, upver, gone, doc, zones, prev, ix, tl, em>>

\* cheerio.load of the fetched root page
RootDone ==
    /\ phase = "root"
    /\ tasks[1].pc = "done"
    /\ doc' = [body |-> tasks[1].out, links |-> StyleLinks(tasks[1].out),
               scripts |-> HeadScripts(tasks[1].out), n |-> 1, hows |-> <<>>]
    /\ phase' = "styles"
    /\ tasks' = <<>>
    /\ UNCHANGED <<fs, upver, gone, cfg, run, outcome, zones, faults, fetched, prev, ix, tl, em>>


\* the concatenation of a sequence of sequences: Array.prototype.flat
RECURSIVE Flat(_)
Flat(ss) == IF ss = <<>> THEN <<>> ELSE Head(ss) \o Flat(Tail(ss))

\* Array.from({ length: len }, (_, k) => f(k)), f given on 0..(len - 1)
ArrayFrom(len, f) == [k \in 1..len |-> f[k - 1]]

\* a variant of downloadTiles whose zoom levels run up to maxZoom inclusive
TilesInclusive(scope, maxZoom) ==
    Flat(ArrayFrom(maxZoom + 1, [zoom \in 0..maxZoom |->
        Flat(ArrayFrom(2 ^ zoom, [x \in 0..(2 ^ zoom - 1) |->
            ArrayFrom(2 ^ zoom, [y \in 0..(2 ^ zoom - 1) |-> <<"tile", scope, zoom, x, y>>])]))]))

\* the URLs downloadTiles(url, maxZoom) calls tryPublicFetchOrCached with, in
\* the order of the calls; scope stands for the url template
downloadTiles(scope, maxZoom) ==
    Flat(ArrayFrom(maxZoom, [zoom \in 0..(maxZoom - 1) |->
        Flat(ArrayFrom(2 ^ zoom, [x \in 0..(2 ^ zoom - 1) |->
            ArrayFrom(2 ^ zoom, [y \in 0..(2 ^ zoom - 1) |-> <<"tile", scope, zoom, x, y>>])]))]))

\* maxZoom of the overworld pyramid and of a zone's pyramid
OverworldMaxZoom == 6
ZoneMaxZoom == 4

\* one tryPublicFetchOrCached call for each URL of a list
PublicTasks(urls, parse, c) == [n \in DOMAIN urls |-> tryPublicFetchOrCached(urls[n], parse, c.canReuseCache)]

\* the stage of the script that follows stage ph, by the flags
StageAfter(ph, c) ==
    CASE ph = "index" -> IF c.shouldDownloadTiles THEN "tiles" ELSE IF c.shouldDownloadAssets THEN "assets" ELSE "world"
      [] ph = "tiles" -> IF c.shouldDownloadAssets THEN "assets" ELSE "world"
      [] OTHER -> "world"

\* the calls a stage launches at once
StageTasks(ph, c) ==
    CASE ph = "tiles" -> PublicTasks(downloadTiles("overworld", OverworldMaxZoom), FALSE, c)
      [] ph = "assets" -> PublicTasks([n \in DOMAIN assets |-> <<"asset", assets[n]>>], FALSE, c)
      [] OTHER -> PublicTasks(<<world>>, TRUE, c)

\* the media and rapport URLs of one marker datum
DatumUrls(d) ==
    (IF d.popupMedia # "" /\ d.popupMedia # "http" THEN << <<"media", d.popupMedia>> >> ELSE <<>>)
    \o (IF d.rapportId # "" THEN << <<"rapport", d.rapportId>> >> ELSE <<>>)

\* the URLs of the parsed zone documents: markers.flatMap(data.flatMap(...))
ResultUrls(results) ==
    Flat([r \in DOMAIN results |->
        Flat([m \in DOMAIN results[r].markers |->
            Flat([d \in DOMAIN results[r].markers[m].data |-> DatumUrls(results[r].markers[m].data[d])])])])

\* the icon, island image and tiles of one zone
ZoneUrls(z, c) ==
    (IF c.shouldDownloadZoneIcons /\ z.markerType = 1 THEN << <<"icon", z.id>> >> ELSE <<>>)
    \o (IF z.markerType \in {2, 3} THEN << <<"island", z.id>> >> ELSE <<>>)
    \o (IF c.shouldDownloadTiles THEN downloadTiles(z.id, ZoneMaxZoom) ELSE <<>>)

\* one iteration of the stylesheet loop, up to its await or its end
StylesStep ==
    /\ phase = "styles"
    /\ tasks = <<>>
    /\ IF doc.n > Len(doc.links)
       THEN /\ phase' = "scripts"
            /\ doc' = [doc EXCEPT !.n = 1]
            /\ UNCHANGED <<tasks, fetched>>
       ELSE IF doc.links[doc.n][1] = "fonts"
       THEN /\ doc' = [doc EXCEPT !.n = doc.n + 1]
            /\ UNCHANGED <<phase, tasks, fetched>>
       ELSE /\ tasks' = <<cacheResourceFile(doc.links[doc.n], CssPrefix, "embed", cfg.canReuseCache)>>
            /\ fetched' = fetched \cup Requested(tasks')
            /\ UNCHANGED <<phase, doc>>
    /\ UNCHANGED <<fs, upver, gone, cfg, run, outcome, zones, faults, prev, ix, tl, em>>

\* a variant of ScriptsStep that leaves the loop before its last element
ScriptsEarly ==
    /\ phase = "scripts"
    /\ tasks = <<>>
    /\ IF doc.n >= Len(doc.scripts)
       THEN /\ phase' = "index"
            /\ fs' = Put(fs, <<sIndexHtml>>, Partial(Html(doc)))
            /\ UNCHANGED <<tasks, fetched, doc>>
       ELSE IF doc.scripts[doc.n][1] = "cfjs"
       THEN /\ doc' = [doc EXCEPT !.n = doc.n + 1, !.scripts[doc.n] = <<"removed">>]
            /\ UNCHANGED <<fs, phase, tasks, fetched>>
       ELSE /\ tasks' = <<cacheResourceFile(doc.scripts[doc.n], JsPrefix,
                              IF doc.scripts[doc.n][1] = "js" THEN "rewrite" ELSE "none", cfg.canReuseCache)>>
            /\ fetched' = fetched \cup Requested(tasks')
            /\ UNCHANGED <<fs, phase, doc>>
    /\ UNCHANGED <<upver, gone, cfg, run, outcome, zones, faults, prev, ix, tl, em>>

\* one iteration of the script loop, up to its await; after the last one
\* Deno.writeFile of index.html starts
ScriptsStep ==
    /\ phase = "scripts"
    /\ tasks = <<>>
    /\ IF doc.n > Len(doc.scripts)
       THEN /\ phase' = "index"
            /\ fs' = Put(fs, <<sIndexHtml>>, Partial(Html(doc)))
            /\ UNCHANGED <<tasks, fetched, doc>>
       ELSE IF doc.scripts[doc.n][1] = "cfjs"
       THEN /\ doc' = [doc EXCEPT !.n = doc.n + 1, !.scripts[doc.n] = <<"removed">>]
            /\ UNCHANGED <<fs, phase, tasks, fetched>>
       ELSE /\ tasks' = <<cacheResourceFile(doc.scripts[doc.n], JsPrefix,
                              IF doc.scripts[doc.n][1] = "js" THEN "rewrite" ELSE "none", cfg.canReuseCache)>>
            /\ fetched' = fetched \cup Requested(tasks')
            /\ UNCHANGED <<fs, phase, doc>>
    /\ UNCHANGED <<upver, gone, cfg, run, outcome, zones, faults, prev, ix, tl, em>>

\* cacheResourceFile returned: the element's href or src is overwritten
HeadAssign ==
    /\ phase \in {"styles", "scripts"}
    /\ tasks # <<>>
    /\ tasks[1].pc = "done"
    /\ doc' = IF phase = "styles"
              THEN [doc EXCEPT !.n = doc.n + 1, !.links[doc.n] = tasks[1].out, !.hows = Append(doc.hows, tasks[1].how)]
              ELSE [doc EXCEPT !.n = doc.n + 1, !.scripts[doc.n] = tasks[1].out, !.hows = Append(doc.hows, tasks[1].how)]
    /\ tasks' = <<>>
    /\ UNCHANGED <<fs, upver, gone, cfg, run, phase, outcome, zones, faults, fetched, prev, ix, tl, em>>


\* Deno.writeFile of index.html completes and the script launches the calls
\* of the next stage
IndexEnd ==
    /\ phase = "index"
    /\ fs' = Put(fs, <<sIndexHtml>>, Html(doc))
    /\ phase' = StageAfter("index", cfg)
    /\ tasks' = StageTasks(phase', cfg)
    /\ fetched' = fetched \cup Requested(tasks')
    /\ UNCHANGED <<upver, gone, cfg, run, outcome, doc, zones, faults, prev, ix, tl, em>>

\* Deno.writeFile of index.html throws: nothing catches it
IndexFail ==
    /\ phase = "index"
    /\ faults > 0
    /\ EndRun("WriteError")
    /\ UNCHANGED <<fs, upver, gone, run, ix, tl, em>>

\* Promise.all of the overworld tiles or of the assets resolves
StageJoin ==
    /\ phase \in {"tiles", "assets"}
    /\ AllDone(tasks)
    /\ phase' = StageAfter(phase, cfg)
    /\ tasks' = StageTasks(phase', cfg)
    /\ fetched' = fetched \cup Requested(tasks')
    /\ UNCHANGED <<fs, upver, gone, cfg, run, outcome, doc, zones, faults, prev, ix, tl, em>>

\* "const { zones } = ..." of the world document, then the zone documents
\* are requested; destructuring undefined throws a TypeError
WorldDone ==
    /\ phase = "world"
    /\ tasks[1].pc = "done"
    /\ IF IsUndefined(tasks[1].out)
       THEN EndRun("TypeError")
       ELSE IF ~cfg.shouldDownloadZones
       THEN EndRun("done")
       ELSE /\ zones' = tasks[1].out.zones
            /\ phase' = "zonejson"
            /\ tasks' = PublicTasks(<< <<"zonejson", "00000">> >>
                            \o [z \in DOMAIN zones' |-> <<"zonejson", zones'[z].id>>], TRUE, cfg)
            /\ fetched' = fetched \cup Requested(tasks')
            /\ UNCHANGED <<outcome, doc, cfg, faults, prev>>
    /\ UNCHANGED <<fs, upver, gone, run, ix, tl, em>>

\* the inner Promise.all resolves: the markers are walked and the media,
\* rapport, icon and island calls are launched; "({ markers })" of an
\* undefined result throws a TypeError
ZoneJsonJoin ==
    /\ phase = "zonejson"
    /\ AllDone(tasks)
    /\ IF \E n \in DOMAIN tasks : IsUndefined(tasks[n].out)
       THEN EndRun("TypeError")
       ELSE /\ phase' = "zoneaux"
            /\ tasks' = PublicTasks(ResultUrls([n \in DOMAIN tasks |-> tasks[n].out])
                            \o Flat([z \in DOMAIN zones |-> ZoneUrls(zones[z], cfg)]), FALSE, cfg)
            /\ fetched' = fetched \cup Requested(tasks')
            /\ UNCHANGED <<outcome, doc, zones, cfg, faults, prev>>
    /\ UNCHANGED <<fs, upver, gone, run, ix, tl, em>>

\* the outer Promise.all resolves: the script ends
ZoneAuxJoin ==
    /\ phase = "zoneaux"
    /\ AllDone(tasks)
    /\ EndRun("done")
    /\ UNCHANGED <<fs, upver, gone, run, ix, tl, em>>

\* an awaited call rejected: the exception is unhandled and the process
\* exits, whatever is still in flight
Crash ==
    /\ phase \in {"tiles", "assets", "world", "zonejson", "zoneaux"}
    /\ \E n \in DOMAIN tasks : tasks[n].pc = "failed"
    /\ EndRun("Rejected")
    /\ UNCHANGED <<fs, upver, gone, run, ix, tl, em>>

(***************************************************************************)
(* The upstream                                                            *)
(***************************************************************************)
\* the URLs the upstream may lack
GoneChoices ==
    {None, rootUrl, <<"css">>, <<"img">>, <<"asset", "boss">>, world, <<"zonejson", "z1">>,
     <<"rapport", "r1">>}

\* between two runs the upstream publishes new content, or one of its
\* URLs disappears
UpstreamChange ==
    /\ phase = "off"
    /\ outcome # "none"
    /\ \/ upver < MaxVer /\ upver' = upver + 1 /\ gone' = gone
       \/ gone = None /\ upver' = upver /\ gone' \in GoneChoices \ {None}
    /\ UNCHANGED <<fs, cfg, run, phase, outcome, tasks, doc, zones, faults, fetched, prev, ix, tl, em>>

RunInit ==
    /\ fs = EmptyDir
    /\ upver = 1
    /\ gone \in GoneChoices
    /\ cfg = NoConfig
    /\ run = 0
    /\ phase = "off"
    /\ outcome = "none"
    /\ tasks = <<>>
    /\ doc = NoDoc
    /\ zones = <<>>
    /\ faults = 0
    /\ fetched = {}
    /\ prev = [outcome |-> "none", canReuseCache |-> FALSE, refreshed |-> FALSE, up |-> <<0, None>>, fs |-> EmptyDir]

Init == RunInit /\ ix = None /\ tl = None /\ em = None

TaskStep(n) ==
    \/ Lookup(n)
    \/ Respond(n)
    \/ SubRespond(n)
    \/ WriteEnd(n)
    \/ WriteFail(n)
    \/ TimerFire(n)
    \/ Read(n)

Next ==
    \/ StartRun
    \/ RootDone
    \/ StylesStep
    \/ ScriptsStep
    \/ HeadAssign
    \/ IndexEnd
    \/ IndexFail
    \/ StageJoin
    \/ WorldDone
    \/ ZoneJsonJoin
    \/ ZoneAuxJoin
    \/ Crash
    \/ UpstreamChange
    \/ \E n \in DOMAIN tasks : TaskStep(n)

Spec == Init /\ [][Next]_vars

(***************************************************************************)
(* One call of a retry loop                                                *)
(*                                                                         *)
(* A single call of fetchRootPage, cacheResourceFile or                    *)
(* tryPublicFetchOrCached, at the place of the script that makes it, with  *)
(* more failures than a whole run of Spec is given.                        *)
(***************************************************************************)
\* the document after cheerio.load of the root page of version v
LoadedDoc(v) ==
    [body |-> Body(rootUrl, v), links |-> StyleLinks(Body(rootUrl, v)),
     scripts |-> HeadScripts(Body(rootUrl, v)), n |-> 1, hows |-> <<>>]

\* what cacheResourceFile writes for the stylesheet and the script of version v
CssFile(v) == Inlined(Body(<<"css">>, v), <<Body(<<"img">>, v)>>)
JsFile(v) == replaceJsPapunikaUrls(Body(<<"js">>, v))

\* the paths cacheResourceFile returns for them
CssPath(v) == CssPrefix \o <<filenameWithHash(<<"css">>, CssFile(v))>>
JsPath(v) == JsPrefix \o <<filenameWithHash(<<"js">>, JsFile(v))>>
Js2Path(v) == JsPrefix \o <<filenameWithHash(<<"js2">>, Body(<<"js2">>, v))>>

\* the document after both loops over its head, each file written
HeadDoc(v) ==
    IF v = 0
    THEN [LoadedDoc(v) EXCEPT !.links[2] = CssPath(v), !.scripts = << <<"removed">>, JsPath(v), Js2Path(v) >>,
                              !.n = 4, !.hows = <<"written", "written", "written">>]
    ELSE [LoadedDoc(v) EXCEPT !.links[2] = CssPath(v), !.scripts[1] = <<"removed">>,
                              !.scripts[2] = JsPath(v), !.n = 3, !.hows = <<"written", "written">>]

\* the output directory of a run on an empty directory against version v,
\* made without read access, when index.html is written
HeadMirror(v) ==
    LET files == Put(Put(EmptyDir, CssPath(v), CssFile(v)), JsPath(v), JsFile(v))
    IN  Put(IF v = 0 THEN Put(files, Js2Path(v), Body(<<"js2">>, v)) ELSE files, <<sIndexHtml>>, Html(HeadDoc(v)))

\* the output directory after that run, made with --no-tiles --no-assets
\* --no-zones
BareMirror(v) == Put(HeadMirror(v), Filepath(world), Body(world, v))

\* the call starts: the first run or a later one, the URL there or gone
InitRetry ==
    /\ upver = 1
    /\ cfg \in {c \in Configs : ~c.shouldDownloadAssets}
    /\ \E call \in {"root", "styles", "world"} :
          /\ phase = call
          /\ tasks = CASE call = "root" -> <<fetchRootPage>>
                       [] call = "styles" -> <<cacheResourceFile(<<"css">>, CssPrefix, "embed", cfg.canReuseCache)>>
                       [] OTHER -> <<tryPublicFetchOrCached(world, TRUE, cfg.canReuseCache)>>
          /\ doc = IF call = "root" THEN NoDoc
                   ELSE IF call = "styles" THEN [LoadedDoc(1) EXCEPT !.n = 2]
                   ELSE HeadDoc(1)
          /\ fs \in IF call = "world" THEN {HeadMirror(1), BareMirror(1)} ELSE {EmptyDir, BareMirror(1)}
          /\ gone \in {None, tasks[1].url}
    /\ run = IF fs = BareMirror(1) THEN 2 ELSE 1
    /\ outcome = "none"
    /\ zones = <<>>
    /\ faults = MaxRetries
    /\ fetched = {rootUrl} \cup Requested(tasks)
    /\ prev = IF fs = BareMirror(1)
              THEN [outcome |-> "done", canReuseCache |-> FALSE, refreshed |-> FALSE, up |-> <<1, None>>, fs |-> fs]
              ELSE [outcome |-> "none", canReuseCache |-> FALSE, refreshed |-> FALSE, up |-> <<0, None>>, fs |-> EmptyDir]
    /\ ix = None
    /\ tl = None
    /\ em = None

NextRetry == \E n \in DOMAIN tasks : TaskStep(n)

SpecRetry == InitRetry /\ [][NextRetry]_vars

(***************************************************************************)
(* One call of a retry loop, any status                                    *)
(*                                                                         *)
(* The same calls, the upstream answering with any of the statuses of      *)
(* WideStatuses.                                                           *)
(***************************************************************************)
\* the response to the request of a retry loop arrives, with any status
RespondWide(n) == Answer(n, WideStatuses(tasks[n].url, gone, faults > 0))

StatusStep(n) ==
    \/ Lookup(n)
    \/ RespondWide(n)
    \/ SubRespond(n)
    \/ WriteEnd(n)
    \/ WriteFail(n)
    \/ TimerFire(n)
    \/ Read(n)

NextStatus == \E n \in DOMAIN tasks : StatusStep(n)

SpecStatus == InitRetry /\ [][NextStatus]_vars

(***************************************************************************)
(* One call of a retry loop, the enumeration failing                       *)
(*                                                                         *)
(* The same calls, Deno.readDir ending in any of the ways of ReadErrs.     *)
(***************************************************************************)
\* findExistingCachedFile answers, however Deno.readDir ended
LookupAny(n) == Find(n, ReadErrs(fs, LookupArgs(tasks[n]).dir))

LookupStep(n) ==
    \/ LookupAny(n)
    \/ Respond(n)
    \/ SubRespond(n)
    \/ WriteEnd(n)
    \/ WriteFail(n)
    \/ TimerFire(n)
    \/ Read(n)

NextLookup == \E n \in DOMAIN tasks : LookupStep(n)

SpecLookup == InitRetry /\ [][NextLookup]_vars

(***************************************************************************)
(* One run, fairly scheduled                                               *)
(*                                                                         *)
(* One run of the script in which requests are the only thing that fails:  *)
(* MaxFaults of them, after which every URL but the one that is gone       *)
(* answers 200.  The event loop runs a callback whenever one is ready:     *)
(* every pending response arrives, every timer fires, every read and write *)
(* of the disk completes, and the script goes on when its await is over.   *)
(***************************************************************************)
\* the calls that may be in flight at a time
MaxCalls == 3

\* the script is about to start, on an empty directory or on a mirror
InitLive ==
    /\ fs \in {EmptyDir, BareMirror(1)}
    /\ upver = 1
    /\ gone \in GoneChoices
    /\ cfg = NoConfig
    /\ run = MaxRuns - 1
    /\ phase = "off"
    /\ outcome = "none"
    /\ tasks = <<>>
    /\ doc = NoDoc
    /\ zones = <<>>
    /\ faults = 0
    /\ fetched = {}
    /\ prev = IF fs = EmptyDir
              THEN [outcome |-> "none", canReuseCache |-> FALSE, refreshed |-> FALSE, up |-> <<0, None>>, fs |-> EmptyDir]
              ELSE [outcome |-> "done", canReuseCache |-> FALSE, refreshed |-> FALSE, up |-> <<1, None>>, fs |-> fs]
    /\ ix = None
    /\ tl = None
    /\ em = None

\* a step of a call that needs no failure of the disk
LiveStep(n) ==
    \/ Lookup(n)
    \/ Respond(n)
    \/ SubRespond(n)
    \/ WriteEnd(n)
    \/ TimerFire(n)
    \/ Read(n)

\* a step of the script
ScriptStep ==
    \/ StartRun
    \/ RootDone
    \/ StylesStep
    \/ ScriptsStep
    \/ HeadAssign
    \/ IndexEnd
    \/ StageJoin
    \/ WorldDone
    \/ ZoneJsonJoin
    \/ ZoneAuxJoin

NextLive ==
    \/ ScriptStep
    \/ \E n \in DOMAIN tasks : LiveStep(n)

SpecLive ==
    /\ InitLive
    /\ [][NextLive]_vars
    /\ WF_vars(ScriptStep)
    /\ \A n \in 1..MaxCalls : WF_vars(n \in DOMAIN tasks /\ LiveStep(n))

(***************************************************************************)
(* One lookup of the Cache Index                                           *)
(***************************************************************************)
sFoo == <<"f","o","o">>
sFoobar == <<"f","o","o","b","a","r">>
xCss == <<".","c","s","s">>

\* 32 times the digit d
Digest(d) == [k \in 1..32 |-> d]

\* the entries a directory of cached files may hold: legacy names,
\* fingerprinted names, and the legacy name of a stylesheet whose logical
\* name is foo followed by 33 more characters
IndexNames ==
    {sFoo \o xCss,
     sFoo \o <<"-">> \o Digest("0") \o xCss,
     sFoo \o <<"-">> \o Digest("a") \o xCss,
     sFoobar \o <<"-">> \o Digest("0") \o xCss,
     sFoo \o <<"_">> \o Digest("x") \o xCss,
     sFoo \o <<"-">> \o Digest("0") \o <<".","j","s">>,
     sFoo \o <<"-">> \o Digest("0")}

\* the lookups: (dir, name, ext) as cacheResourceFile makes them, and
\* (filepath) as tryPublicFetchOrCached does
IndexLookups ==
    {IndexArgs(<<sCss>>, sFoo, xCss), IndexArgs(<<sCss>>, sFoobar, xCss),
     IndexArgs(<<sCss, sFoo \o xCss>>, <<>>, <<>>), IndexArgs(<<sCss, sFoo \o <<"-", "0", "0", "0">> >>, <<>>, <<>>)}

\* a call of findExistingCachedFile: the directory is missing, unreadable,
\* or lists some entries
InitIndex ==
    /\ RunInit
    /\ gone = None
    /\ tl = None
    /\ em = None
    /\ \E listing \in SUBSET IndexNames, err \in {"ok", "NotFound", "Other"}, a \in IndexLookups :
          /\ err # "ok" => listing = {}
          /\ ix = [pc |-> "readDir", listing |-> listing, readErr |-> err, name |-> a.name, ext |-> a.ext,
                   out |-> NoFile]

\* the loop over Deno.readDir returns its first match, or the function
\* returns undefined
IndexReturn ==
    /\ ix.pc = "readDir"
    /\ \E f \in findExistingCachedFile(ix.listing, ix.readErr, ix.name, ix.ext) :
          ix' = [ix EXCEPT !.pc = "returned", !.out = f]
    /\ UNCHANGED <<runVars, tl, em>>

NextIndex == IndexReturn

SpecIndex == InitIndex /\ [][NextIndex]_vars

(***************************************************************************)
(* One call of downloadTiles                                               *)
(***************************************************************************)
\* downloadTiles(url, maxZoom) is called for the overworld or for a zone
InitTiles ==
    /\ RunInit
    /\ gone = None
    /\ ix = None
    /\ em = None
    /\ \E scope \in {"overworld", "z1"}, maxZoom \in 0..MaxZoom :
          tl = [pc |-> "map", scope |-> scope, maxZoom |-> maxZoom, launched |-> <<>>]

\* the next callback of the nested Array.from calls tryPublicFetchOrCached
TileLaunch ==
    /\ tl.pc = "map"
    /\ Len(tl.launched) < Len(downloadTiles(tl.scope, tl.maxZoom))
    /\ tl' = [tl EXCEPT !.launched = Append(tl.launched, downloadTiles(tl.scope, tl.maxZoom)[Len(tl.launched) + 1])]
    /\ UNCHANGED <<runVars, ix, em>>

\* the arrays are flattened and handed to Promise.all
TilesAwait ==
    /\ tl.pc = "map"
    /\ Len(tl.launched) = Len(downloadTiles(tl.scope, tl.maxZoom))
    /\ tl' = [tl EXCEPT !.pc = "await"]
    /\ UNCHANGED <<runVars, ix, em>>

NextTiles == TileLaunch \/ TilesAwait

SpecTiles == InitTiles /\ [][NextTiles]_vars

(***************************************************************************)
(* The awaited phases                                                      *)
(*                                                                         *)
(* The part of the script after index.html is written (lines 540-633),     *)
(* started on a directory that holds the head of the mirror or a whole     *)
(* mirror.  Version 0 of the upstream has markers that share their media   *)
(* and rapport icon; the overworld pyramid is TileZoom levels deep.        *)
(***************************************************************************)
\* the zoom levels of the overworld pyramid of this part
TileZoom == 1

\* the URLs tryPublicFetchOrCached is called with in a run against version v
\* in which every URL answers 200, tiles left out
PublicUrls(v, c) ==
    LET zs == WorldZones(v)
        docs == << [markers |-> ZoneMarkers("00000", v)] >>
                    \o [z \in DOMAIN zs |-> [markers |-> ZoneMarkers(zs[z].id, v)]]
    IN  [n \in DOMAIN assets |-> <<"asset", assets[n]>>]
        \o <<world, <<"zonejson", "00000">> >> \o [z \in DOMAIN zs |-> <<"zonejson", zs[z].id>>]
        \o ResultUrls(docs) \o Flat([z \in DOMAIN zs |-> ZoneUrls(zs[z], c)])

\* the directory files with the URLs urls of version v mirrored
RECURSIVE Mirrored(_, _, _)
Mirrored(files, urls, v) ==
    IF urls = <<>> THEN files
    ELSE Mirrored(Put(files, Filepath(Head(urls)), Body(Head(urls), v)), Tail(urls), v)

\* the flags of this part: the assets and zones with their icons, or the
\* overworld tiles alone
PhaseConfigs ==
    {[refresh |-> r, canReuseCache |-> c, shouldDownloadTiles |-> t,
      shouldDownloadAssets |-> ~t, shouldDownloadZones |-> ~t, shouldDownloadZoneIcons |-> ~t] :
        r \in BOOLEAN, c \in BOOLEAN, t \in BOOLEAN}

\* the calls of the first awaited stage
FirstStage(c) ==
    IF c.shouldDownloadTiles THEN PublicTasks(downloadTiles("overworld", TileZoom), FALSE, c)
    ELSE StageTasks("assets", c)

\* index.html is written: the first stage is launched
InitPhase ==
    /\ upver = 0
    /\ gone \in {None, <<"asset", "boss">>, <<"rapport", "r1">>}
    /\ cfg \in PhaseConfigs
    /\ phase = IF cfg.shouldDownloadTiles THEN "tiles" ELSE "assets"
    /\ tasks = FirstStage(cfg)
    /\ doc = HeadDoc(upver)
    /\ fs \in {HeadMirror(upver),
               Mirrored(HeadMirror(upver),
                        IF cfg.shouldDownloadTiles THEN downloadTiles("overworld", TileZoom) \o <<world>>
                        ELSE PublicUrls(upver, cfg), upver)}
    /\ run = IF fs = HeadMirror(upver) THEN 1 ELSE 2
    /\ outcome = "none"
    /\ zones = <<>>
    /\ faults = MaxFaults
    /\ fetched = {rootUrl} \cup Requested(tasks)
    /\ prev = IF run = 2
              THEN [outcome |-> "done", canReuseCache |-> FALSE, refreshed |-> FALSE, up |-> <<upver, None>>, fs |-> fs]
              ELSE [outcome |-> "none", canReuseCache |-> FALSE, refreshed |-> FALSE, up |-> <<0, None>>, fs |-> EmptyDir]
    /\ ix = None
    /\ tl = None
    /\ em = None

\* a step of a call of tryPublicFetchOrCached
PublicStep(n) ==
    \/ Lookup(n)
    \/ Respond(n)
    \/ WriteEnd(n)
    \/ WriteFail(n)
    \/ TimerFire(n)
    \/ Read(n)

NextPhase ==
    \/ StageJoin
    \/ WorldDone
    \/ ZoneJsonJoin
    \/ ZoneAuxJoin
    \/ Crash
    \/ \E n \in DOMAIN tasks : PublicStep(n)

SpecPhase == InitPhase /\ [][NextPhase]_vars

(***************************************************************************)
(* One call of embedCssUrls                                                *)
(*                                                                         *)
(* The text of a stylesheet is a sequence of symbols: "url(", ")", the     *)
(* double quote dq and the single quote sq, "data:", "#", ";" and the      *)
(* letters of file names.  A stylesheet of the model is a list of up to    *)
(* MaxRefs references, each bare or quoted and followed by ";".            *)
(***************************************************************************)
MaxRefs == 2

cUrl == "url("
cClose == ")"
cData == "data:"
cHash == "#"
cDq == "dq"
cSq == "sq"
Quotes == {cDq, cSq}

\* what a reference may name: two files, an anchor, a data: URI
Targets == {<<"a">>, <<"b">>, <<cHash, "a">>, <<cData, "a">>}

\* a reference: its target, bare (q = <<>>) or wrapped in the quote q
RefForms == [target : Targets, q : {<<>>, <<cDq>>, <<cSq>>}]

\* the text of the reference r
RefText(r) == <<cUrl>> \o r.q \o r.target \o r.q \o <<cClose>>

\* the text of the stylesheet with the references rs
RECURSIVE CssText(_)
CssText(rs) == IF rs = <<>> THEN <<>> ELSE RefText(Head(rs)) \o <<";">> \o CssText(Tail(rs))

Stylesheets == UNION {[1..n -> RefForms] : n \in 0..MaxRefs}

\* where the tail (?:"|')?\) of the pattern ends when it is tried at m: at
\* the ")" behind a quote, else at the ")" itself; 0 when it does not match
CloseAt(s, m) ==
    IF m + 1 <= Len(s) /\ s[m] \in Quotes /\ s[m + 1] = cClose THEN m + 1
    ELSE IF m <= Len(s) /\ s[m] = cClose THEN m
    ELSE 0

\* where the group ((?!data:).+?) ends when it is tried at j: not before
\* "data:", and lazily, at the first place the tail matches behind; 0 when
\* the group does not match at j
CaptureAt(s, j) ==
    LET ends == {k \in j..Len(s) : CloseAt(s, k + 1) # 0}
    IN  IF j > Len(s) \/ s[j] = cData \/ ends = {} THEN 0
        ELSE CHOOSE k \in ends : \A m \in ends : k <= m

NoMatch == [from |-> 0, to |-> 0, end |-> 0]

\* the match of /url\((?:"|')?((?!data:).+?)(?:"|')?\)/ that starts at i:
\* the opening quote is taken when there is one, and given back to the
\* group when the rest does not match behind it
MatchAt(s, i) ==
    LET q == IF i + 1 <= Len(s) /\ s[i + 1] \in Quotes THEN 1 ELSE 0
        k1 == CaptureAt(s, i + 1 + q)
        k0 == CaptureAt(s, i + 1)
    IN  IF s[i] # cUrl THEN NoMatch
        ELSE IF k1 # 0 THEN [from |-> i + 1 + q, to |-> k1, end |-> CloseAt(s, k1 + 1)]
        ELSE IF k0 # 0 THEN [from |-> i + 1, to |-> k0, end |-> CloseAt(s, k0 + 1)]
        ELSE NoMatch

\* s.matchAll(...) mapped to m[1]: the groups of the matches from i on
RECURSIVE matchAll(_, _)
matchAll(s, i) ==
    IF i > Len(s) THEN <<>>
    ELSE LET m == MatchAt(s, i)
         IN  IF m.end = 0 THEN matchAll(s, i + 1)
             ELSE <<SubSeq(s, m.from, m.to)>> \o matchAll(s, m.end + 1)

\* Array.from(new Set(q)): the first occurrence of each element, in order
RECURSIVE Distinct(_)
Distinct(q) ==
    IF q = <<>> THEN <<>>
    ELSE LET d == Distinct(SubSeq(q, 1, Len(q) - 1))
         IN  IF \E k \in DOMAIN d : d[k] = q[Len(q)] THEN d ELSE Append(d, q[Len(q)])

\* s.replaceAll(pat, rep) for a literal pat
RECURSIVE replaceAll(_, _, _)
replaceAll(s, pat, rep) ==
    LET k == IndexOf(s, pat)
    IN  IF k = 0 THEN s
        ELSE SubSeq(s, 1, k - 1) \o rep \o replaceAll(SubSeq(s, k + Len(pat), Len(s)), pat, rep)

\* b64.encode of the bytes the upstream serves for the reference x
Base64(x) == <<"[">> \o x \o <<"]">>

\* `url(data:${mimeType};base64,${...})`
DataUrl(mime, x) == <<cUrl, cData, mime, ";base64,">> \o Base64(x) \o <<cClose>>

\* the responses to a sub-resource request: ok or not, with a content-type
\* header or without one (headers.get gives null, printed as "null")
Answers == [ok : BOOLEAN, mime : {"image/png", "null"}]

\* embedCssUrls(url, contents) is called with a stylesheet
InitEmbed ==
    /\ RunInit
    /\ gone = None
    /\ ix = None
    /\ tl = None
    /\ \E rs \in Stylesheets :
          em = [pc |-> "match", refs |-> rs, s |-> CssText(rs), urls |-> <<>>, i |-> 0,
                got |-> {}, out |-> <<>>]

\* line 435: the references are collected
EmbedMatch ==
    /\ em.pc = "match"
    /\ em' = [em EXCEPT !.pc = "loop", !.urls = Distinct(matchAll(em.s, 1)), !.i = 1]
    /\ UNCHANGED <<runVars, ix, tl>>

\* lines 437-439: a reference that starts with "#" is passed over
EmbedSkip ==
    /\ em.pc = "loop"
    /\ em.i <= Len(em.urls)
    /\ em.urls[em.i][1] = cHash
    /\ em' = [em EXCEPT !.i = em.i + 1]
    /\ UNCHANGED <<runVars, ix, tl>>

\* lines 441-452: the reference is fetched; fetchSuccess throws, or the
\* occurrences of `url(${resourceUrl})` are replaced by the data: URL
EmbedFetch ==
    /\ em.pc = "loop"
    /\ em.i <= Len(em.urls)
    /\ em.urls[em.i][1] # cHash
    /\ \E ans \in Answers, x \in {em.urls[em.i]} :
          em' = IF ~ans.ok
                THEN [em EXCEPT !.pc = "thrown"]
                ELSE [em EXCEPT !.s = replaceAll(em.s, <<cUrl>> \o x \o <<cClose>>, DataUrl(ans.mime, x)),
                                !.got = em.got \cup {[url |-> x, mime |-> ans.mime]},
                                !.i = em.i + 1]
    /\ UNCHANGED <<runVars, ix, tl>>

\* line 455: the text is returned
EmbedReturn ==
    /\ em.pc = "loop"
    /\ em.i > Len(em.urls)
    /\ em' = [em EXCEPT !.pc = "done", !.out = em.s]
    /\ UNCHANGED <<runVars, ix, tl>>

NextEmbed == EmbedMatch \/ EmbedSkip \/ EmbedFetch \/ EmbedReturn

SpecEmbed == InitEmbed /\ [][NextEmbed]_vars

(***************************************************************************)
(* The head of the document                                                *)
(*                                                                         *)
(* One run of the script up to the write of index.html (lines 520-538),    *)
(* against version 0 of the upstream, whose page loads map.js and          *)
(* map.min.js: two URLs that sanitizedBasename reduces to one name.        *)
(***************************************************************************)
InitHead ==
    /\ fs \in {EmptyDir, HeadMirror(0)}
    /\ upver = 0
    /\ gone = None
    /\ cfg = NoConfig
    /\ run = MaxRuns - 1
    /\ phase = "off"
    /\ outcome = "none"
    /\ tasks = <<>>
    /\ doc = NoDoc
    /\ zones = <<>>
    /\ faults = 0
    /\ fetched = {}
    /\ prev = IF fs = EmptyDir
              THEN [outcome |-> "none", canReuseCache |-> FALSE, refreshed |-> FALSE, up |-> <<0, None>>, fs |-> EmptyDir]
              ELSE [outcome |-> "done", canReuseCache |-> FALSE, refreshed |-> FALSE, up |-> <<0, None>>, fs |-> fs]
    /\ ix = None
    /\ tl = None
    /\ em = None

\* a step of a call that the loops over the head await
HeadStep(n) ==
    /\ phase \in {"root", "styles", "scripts"}
    /\ TaskStep(n)

NextHead ==
    \/ StartRun
    \/ RootDone
    \/ StylesStep
    \/ ScriptsStep
    \/ HeadAssign
    \/ IndexEnd
    \/ IndexFail
    \/ \E n \in DOMAIN tasks : HeadStep(n)

SpecHead == InitHead /\ [][NextHead]_vars

(***************************************************************************)
(* The media of a zone                                                     *)
(*                                                                         *)
(* The last awaited stage (lines 607-632) of a run against version TwinVer *)
(* of the upstream, whose zone shows the media m1.png and                  *)
(* m1-00000000000000000000000000000000.png: the calls for the media and    *)
(* the island icon, launched when the zone documents are parsed.           *)
(***************************************************************************)
\* the flags of this part: the zones alone
TwinConfigs ==
    {[refresh |-> r, canReuseCache |-> c, shouldDownloadTiles |-> FALSE,
      shouldDownloadAssets |-> FALSE, shouldDownloadZones |-> TRUE, shouldDownloadZoneIcons |-> TRUE] :
        r \in BOOLEAN, c \in BOOLEAN}

\* the URLs the stage calls tryPublicFetchOrCached with
TwinUrls(c) ==
    LET zs == WorldZones(TwinVer)
        docs == << [markers |-> ZoneMarkers("00000", TwinVer)] >>
                    \o [z \in DOMAIN zs |-> [markers |-> ZoneMarkers(zs[z].id, TwinVer)]]
    IN  ResultUrls(docs) \o Flat([z \in DOMAIN zs |-> ZoneUrls(zs[z], c)])

\* the output directory when the stage starts in a first run
TwinMirror ==
    Mirrored(HeadMirror(TwinVer), <<world, <<"zonejson", "00000">>, <<"zonejson", "z1">> >>, TwinVer)

\* the zone documents are parsed and the calls are launched: in a first
\* run, or in the run after one in which m1.png answered 404
InitTwin ==
    /\ upver = TwinVer
    /\ gone \in {None, <<"media", "m1">>}
    /\ cfg \in TwinConfigs
    /\ phase = "zoneaux"
    /\ tasks = PublicTasks(TwinUrls(cfg), FALSE, cfg)
    /\ doc = HeadDoc(upver)
    /\ zones = WorldZones(upver)
    /\ fs \in {TwinMirror,
               Mirrored(TwinMirror, <<<<"media", "m1x">>, <<"island", "z1">> >>, upver)}
    /\ run = IF fs = TwinMirror THEN 1 ELSE 2
    /\ outcome = "none"
    /\ faults = MaxFaults
    /\ fetched = {rootUrl} \cup Requested(tasks)
    /\ prev = IF run = 2
              THEN [outcome |-> "done", canReuseCache |-> FALSE, refreshed |-> FALSE,
                    up |-> <<upver, <<"media", "m1">> >>, fs |-> fs]
              ELSE [outcome |-> "none", canReuseCache |-> FALSE, refreshed |-> FALSE, up |-> <<0, None>>, fs |-> EmptyDir]
    /\ ix = None
    /\ tl = None
    /\ em = None

NextTwin ==
    \/ ZoneAuxJoin
    \/ \E n \in DOMAIN tasks : PublicStep(n)

SpecTwin == InitTwin /\ [][NextTwin]_vars

(***************************************************************************)
(* Properties                                                              *)
(***************************************************************************)
\* the Cache Index finds a file for URL u in the directory files; an image a
\* stylesheet refers to is cached inside the stylesheet's file
IndexFinds(files, u) ==
    LET a == CASE u[1] \in {"css", "img"} -> IndexArgs(CssPrefix, CacheName(<<"css">>).filename, CacheName(<<"css">>).extname)
               [] u[1] = "js" -> IndexArgs(JsPrefix, CacheName(u).filename, CacheName(u).extname)
               [] OTHER -> IndexArgs(Filepath(u), <<>>, <<>>)
    IN  findExistingCachedFile(ReadDir(files, a.dir), "ok", a.name, a.ext) # {NoFile}

\* the Cache Index has one answer only for the stylesheet and for the script
HeadUnique(files) ==
    \A u \in {<<"css">>, <<"js">>} :
        Cardinality(findExistingCachedFile(ReadDir(files, IF u = <<"css">> THEN CssPrefix ELSE JsPrefix),
                                           "ok", CacheName(u).filename, CacheName(u).extname)) = 1

\* a run without --refresh and with reuse permitted is going on, after a run
\* with reuse permitted that completed against the same upstream
SecondRun ==
    /\ phase # "off"
    /\ prev.outcome = "done"
    /\ prev.canReuseCache
    /\ prev.up = <<upver, gone>>
    /\ cfg.canReuseCache
    /\ ~cfg.refresh

\* C1 as stated: the second run of an unchanged upstream fetches nothing at
\* all, the root page included, and every file of the output directory
\* stays as the first run left it.
C1_ZeroFetches ==
    SecondRun => /\ fetched = {}
                 /\ DOMAIN fs = DOMAIN prev.fs
                 /\ \A p \in DOMAIN fs : fs[p] = prev.fs[p]

\* C1, amended: the second run of an unchanged upstream fetches the root
\* page and, besides it, only URLs the Cache Index finds no file for; it
\* leaves every file it found byte-identical but index.html, which it writes
\* again, with the same bytes when the index has one answer for each head
\* resource.
C1_Idempotence ==
    SecondRun => /\ \A u \in fetched : u = rootUrl \/ ~IndexFinds(prev.fs, u)
                 /\ \A p \in DOMAIN prev.fs \ {<<sIndexHtml>>} : p \in DOMAIN fs /\ fs[p] = prev.fs[p]
                 /\ (phase \in {"assets", "world", "zonejson", "zoneaux"} /\ HeadUnique(prev.fs))
                        => fs[<<sIndexHtml>>] = prev.fs[<<sIndexHtml>>]

\* the second run reused the world document after writing index.html, and
\* has fetched the root page only
C1_Witness ==
    /\ SecondRun
    /\ phase = "world"
    /\ tasks[1].pc = "done"
    /\ tasks[1].how = "reused"
    /\ fetched = {rootUrl}
    /\ fs = prev.fs

\* C2 as stated: a 404 answer to a requested URL raises no exception, the
\* run goes on without the resource.  (TypeError is the error of
\* destructuring the undefined result of a call whose URL answered 404.)
C2_NotFoundTolerated == outcome # "TypeError"

\* C3 as stated: once a call of one of the three retry loops saw a 404, it
\* neither sleeps nor has a request in flight again.
C3_NotFoundTerminal ==
    \A n \in DOMAIN tasks : tasks[n].saw404 => tasks[n].pc \notin {"sleep", "fetch"}

\* the file a call's Cache Index lookup found, as a path below outdir
ExistingPath(t) == LookupArgs(t).dir \o <<t.existing>>

\* a content that was written to the end
Whole(c) == c # None /\ c[1] # "part"

\* C4: under --refresh a call of cacheResourceFile that found a cached file
\* never returns by the reuse branch; when its fetch and write succeed and
\* the new content differs from the cached file's, it has written a file
\* named with the new content's fingerprint, returns that file's path, and
\* the old file is still there with the bytes it had; the reference of
\* index.html to the stylesheet is the returned path.
C4_Refresh ==
    /\ \A n \in DOMAIN tasks :
          LET t == tasks[n]
          IN  (cfg.refresh /\ t.fn = "cache" /\ t.existing # NoFile /\ t.pc = "done")
                  => /\ t.how \in {"written", "stale"}
                     /\ (t.how = "written" /\ Whole(t.was) /\ FileAt(fs, t.out) # t.was)
                            => /\ t.out # ExistingPath(t)
                               /\ Whole(FileAt(fs, t.out))
                               /\ t.out = t.prefix \o <<CacheName(t.url).filename \o <<"-">>
                                              \o md5(FileAt(fs, t.out)) \o CacheName(t.url).extname>>
                               /\ FileAt(fs, ExistingPath(t)) = t.was
    /\ (cfg.refresh /\ phase \in {"assets", "world", "zonejson", "zoneaux"} /\ doc.hows[1] = "written")
          => /\ fs[<<sIndexHtml>>] = <<"html", doc.body, doc.links, doc.scripts>>
             /\ doc.links[2] = CssPath(upver)
             /\ FileAt(fs, doc.links[2]) = CssFile(upver)

\* a call under --refresh wrote a new file beside the cached one it found
C4_Witness ==
    \E n \in DOMAIN tasks :
        /\ cfg.refresh /\ tasks[n].fn = "cache" /\ tasks[n].existing # NoFile
        /\ tasks[n].pc = "done" /\ tasks[n].how = "written"
        /\ Whole(tasks[n].was)
        /\ tasks[n].out # ExistingPath(tasks[n])
        /\ FileAt(fs, ExistingPath(tasks[n])) = tasks[n].was

\* no other call of the same stage is about the URL of call n
Alone(n) == \A m \in DOMAIN tasks \ {n} : tasks[m].url # tasks[n].url

\* C5 as stated: under --refresh, a call that found a whole cached copy and
\* then failed to fetch, transform or write neither sleeps nor rejects, and
\* the copy it falls back to still holds the bytes it held when it was found
\* (no other call being about the same URL).
C5_StaleFallback ==
    \A n \in DOMAIN tasks :
        LET t == tasks[n]
        IN  (cfg.refresh /\ t.fn # "root" /\ t.existing # NoFile /\ Whole(t.was) /\ Alone(n))
                => /\ t.pc \notin {"sleep", "failed"}
                   /\ t.how = "stale" => FileAt(fs, ExistingPath(t)) = t.was

\* C6: a call that found a cached file while --refresh is not set returned by
\* the reuse branch: it has issued no request and written no file, and
\* cacheResourceFile has returned the path of the file found.
C6_CacheReuse ==
    \A n \in DOMAIN tasks :
        LET t == tasks[n]
        IN  (~cfg.refresh /\ t.fn # "root" /\ t.existing # NoFile)
                => /\ t.how = "reused"
                   /\ t.reqs = 0
                   /\ t.writes = 0
                   /\ t.pc \in {"done", "read", "failed"}
                   /\ t.fn = "cache" => t.pc = "done" /\ t.out = t.prefix \o <<t.existing>>

\* cacheResourceFile returned the cached stylesheet without a request
C6_Witness ==
    \E n \in DOMAIN tasks :
        /\ tasks[n].fn = "cache" /\ tasks[n].how = "reused" /\ tasks[n].pc = "done"
        /\ tasks[n].reqs = 0 /\ tasks[n].out \in DOMAIN fs

\* the files of the two directories of cached artifacts
CachedArtifacts(files) ==
    {p \in DOMAIN files : SubSeq(p, 1, Len(p) - 1) \in {CssPrefix, JsPrefix}}

\* the digest in the name of the artifact at p is the digest of its content
DigestMatches(files, p, u) ==
    p[Len(p)] = CacheName(u).filename \o <<"-">> \o md5(files[p]) \o CacheName(u).extname

\* C7 as stated: whenever no run is going on, every cached artifact's name
\* carries the digest of the artifact's content, and so does every file
\* that cacheResourceFile has returned the path of.
C7_Fingerprint ==
    /\ phase = "off" => \A p \in CachedArtifacts(fs) : \E u \in {<<"css">>, <<"js">>} : DigestMatches(fs, p, u)
    /\ \A n \in DOMAIN tasks :
          (tasks[n].fn = "cache" /\ tasks[n].pc = "done")
              => tasks[n].out \in DOMAIN fs /\ DigestMatches(fs, tasks[n].out, tasks[n].url)

\* the test of the Cache Index, spelled out: file is name followed by ext, or
\* starts with name, ends with ext and is 33 characters longer than both
IndexHit(file, name, ext) ==
    \/ file = name \o ext
    \/ /\ Len(file) = Len(name) + Len(ext) + 33
       /\ SubSeq(file, 1, Len(name)) = name
       /\ SubSeq(file, Len(file) - Len(ext) + 1, Len(file)) = ext

\* file is the fingerprinted name of the logical name: name, a dash, 32
\* hexadecimal digits, ext
Fingerprinted(file, name, ext) ==
    /\ Len(file) = Len(name) + 33 + Len(ext)
    /\ SubSeq(file, 1, Len(name)) = name
    /\ file[Len(name) + 1] = "-"
    /\ \A k \in (Len(name) + 2)..(Len(name) + 33) :
          file[k] \in {"0","1","2","3","4","5","6","7","8","9","a","b","c","d","e","f"}
    /\ SubSeq(file, Len(name) + 34, Len(file)) = ext

C9_Backoff ==
    \A n \in DOMAIN tasks :
        LET t == tasks[n]
        IN  /\ \A j \in 1..Len(t.slept) : t.slept[j] = 250 * 2 ^ (j - 1)
            /\ \A j \in 1..(Len(t.slept) - 1) : t.slept[j] <= t.slept[j + 1]
            /\ t.pc = "sleep" => /\ t.timer = 250 * 2 ^ Len(t.slept)
                                 /\ t.i = Len(t.slept) + 1
                                 /\ t.reqs = Len(t.slept) + 1
            /\ t.pc # "sleep" => t.i = Len(t.slept)
            /\ t.reqs <= Len(t.slept) + 1

\* a call made its fourth request after sleeps of 250, 500 and 1000 ms
C9_Witness ==
    \E n \in DOMAIN tasks :
        /\ tasks[n].pc = "fetch"
        /\ tasks[n].reqs = 4
        /\ tasks[n].slept = <<250, 500, 1000>>

\* the triples (z, x, y) with 0 <= z < maxZoom and 0 <= x, y < 2^z
TileTriples(maxZoom) ==
    {t \in (0..(maxZoom - 1)) \X (0..(2 ^ maxZoom)) \X (0..(2 ^ maxZoom)) : t[2] < 2 ^ t[1] /\ t[3] < 2 ^ t[1]}

\* C10: downloadTiles(url, maxZoom) launches calls for tiles of its own url
\* only, each for a triple (z, x, y) with 0 <= z < maxZoom and
\* 0 <= x, y < 2^z, none twice; when all are launched there is one for each
\* such triple, (4^maxZoom - 1) / 3 in all, which is 5 for maxZoom = 2.
C10_TileEnumeration ==
    LET triple(k) == <<tl.launched[k][3], tl.launched[k][4], tl.launched[k][5]>>
    IN  /\ \A k \in DOMAIN tl.launched :
              /\ tl.launched[k][1] = "tile"
              /\ tl.launched[k][2] = tl.scope
              /\ triple(k) \in TileTriples(tl.maxZoom)
        /\ \A j, k \in DOMAIN tl.launched : j # k => triple(j) # triple(k)
        /\ tl.pc = "await"
              => /\ {triple(k) : k \in DOMAIN tl.launched} = TileTriples(tl.maxZoom)
                 /\ Len(tl.launched) = (4 ^ tl.maxZoom - 1) \div 3
                 /\ tl.maxZoom = 2 => Len(tl.launched) = 5

\* downloadTiles(url, 2) has launched its five calls
C10_Witness ==
    /\ tl.pc = "await"
    /\ tl.maxZoom = 2
    /\ Len(tl.launched) = 5

\* the references of a stylesheet that embedCssUrls fetches
FetchedRefs(css) == {j \in DOMAIN CssRefs(css) : CssRefs(css)[j] # <<"anchor">>}

\* a file content that is a stylesheet with only some of its references
\* inlined, whole or truncated
PartlyInlined(c) ==
    \/ c[1] = "inl" /\ Len(c[3]) < Cardinality(FetchedRefs(c[2]))
    \/ c[1] = "part" /\ c[2][1] = "inl" /\ Len(c[2][3]) < Cardinality(FetchedRefs(c[2][2]))

\* C11 as stated: a call of cacheResourceFile that is inside embedCssUrls
\* leaves it either with every sub-resource fetched (and goes on to write) or
\* by failing: a failed sub-resource fetch rejects the call, it is neither
\* retried nor answered with a stale copy; and no file of the output
\* directory holds a stylesheet with only some references inlined.
C11_TransformFailurePropagates ==
    /\ [][\A n \in DOMAIN tasks :
              (tasks[n].pc = "sub" /\ n \in DOMAIN tasks' /\ tasks'[n].pc \notin {"sub", "write"})
                  => tasks'[n].pc = "failed"]_vars
    /\ [](\A p \in DOMAIN fs : ~PartlyInlined(fs[p]))

\* the files of the directory files that the Cache Index matches for the
\* lookup a
Matches(files, a) == findExistingCachedFile(ReadDir(files, a.dir), "ok", a.name, a.ext) \ {NoFile}

\* the lookups of the logical resources of a mirror: the head stylesheet and
\* script by their sanitized names, every mirrored file by its own path
ResourceLookups(files) ==
    {IndexArgs(CssPrefix, CacheName(<<"css">>).filename, CacheName(<<"css">>).extname),
     IndexArgs(JsPrefix, CacheName(<<"js">>).filename, CacheName(<<"js">>).extname)}
    \cup {IndexArgs(p, <<>>, <<>>) : p \in DOMAIN files \ (CachedArtifacts(files) \cup {<<sIndexHtml>>})}

\* no run so far, the one going on included, was given --refresh
NeverRefreshed == ~prev.refreshed /\ ~cfg.refresh

\* C12 as stated: while no run has been given --refresh, the Cache Index
\* matches at most one file of the output directory for each logical
\* resource, with or without the permission to read the directory and
\* whatever the upstream answers from run to run.
C12_SingleArtifact ==
    NeverRefreshed => \A a \in ResourceLookups(fs) : Cardinality(Matches(fs, a)) <= 1

\* the cached artifacts and the directly mirrored files of a directory: every
\* file but index.html
Artifacts(files) == DOMAIN files \ {<<sIndexHtml>>}

\* C13 as stated: an artifact that is on disk with its whole content, be it a
\* fingerprinted file or a directly mirrored one, is there with the same
\* content after every step of every run.
C13_Immutable ==
    [][\A p \in Artifacts(fs) : Whole(fs[p]) => (p \in DOMAIN fs' /\ fs'[p] = fs[p])]_vars

JoinedPhases == {"tiles", "assets", "zonejson", "zoneaux"}

\* C15: the script leaves an awaited phase, other than by the unhandled
\* rejection that ends the process, only when each call the phase launched
\* has returned: after writing its file, after reusing the cached file
\* (found at once, or fallen back to after a failed fetch) or after a 404.
\* No call of the phase is looking up, fetching, writing, sleeping or
\* reading at that step.
C15_PhaseJoin ==
    [][(phase \in JoinedPhases /\ phase' # phase /\ outcome' # "Rejected")
          => \A n \in DOMAIN tasks :
                /\ tasks[n].pc = "done"
                /\ tasks[n].how \in {"written", "reused", "stale", "notfound"}]_vars

\* the zone documents were awaited and are on disk, and the four calls for
\* the media and rapport icons of their markers have just been launched
C15_Witness ==
    /\ phase = "zoneaux"
    /\ Len(tasks) = 4
    /\ \A n \in DOMAIN tasks : tasks[n].pc \in {"lookup", "fetch"} /\ tasks[n].reqs <= 1 /\ tasks[n].i = 0
    /\ \A u \in {<<"zonejson", "00000">>, <<"zonejson", "z1">>} : Whole(FileAt(fs, Filepath(u)))

\* C16 as stated: a call goes on with a response (transforms it, writes it,
\* returns it) only when its status was 200, so no file is written for any
\* other status; and a call is over as not-found exactly when a response had
\* status 404.
C16_StatusClassification ==
    \A n \in DOMAIN tasks :
        LET t == tasks[n]
        IN  /\ t.pc \in {"sub", "write"} => t.status = 200
            /\ t.how \in {"fetched", "written"} => t.status = 200
            /\ t.saw404 <=> (t.pc = "done" /\ t.how = "notfound")

\* C17 as stated: every file of the output directory that the Cache Index
\* returns for a logical resource holds its whole content, at every moment
\* of every run, also while a call is writing and after a write has failed.
C17_AtomicPersistence ==
    \A a \in ResourceLookups(fs) : \A f \in Matches(fs, a) : Whole(fs[a.dir \o <<f>>])

\* C18: a call whose Cache Index lookup ended with the directory missing
\* (NotFound) or with any other failure of the enumeration got 'nothing
\* found': it has no cached file, it did not reject, it went on to request
\* its URL, and it never returns a cached file as reused or stale.
C18_IndexFailsOpen ==
    \A n \in DOMAIN tasks :
        LET t == tasks[n]
        IN  t.err \in {"NotFound", "PermissionDenied", "Other"}
                => /\ t.existing = NoFile
                   /\ t.pc # "failed"
                   /\ t.reqs >= 1
                   /\ t.how \notin {"reused", "stale"}

\* the lookup of the stylesheet failed for another reason than a missing
\* directory although static/css holds a cached copy, and the call has
\* fetched the stylesheet and written it
C18_Witness ==
    \E n \in DOMAIN tasks :
        /\ tasks[n].fn = "cache" /\ tasks[n].err = "Other"
        /\ Matches(prev.fs, LookupArgs(tasks[n])) # {}
        /\ tasks[n].pc = "done" /\ tasks[n].how = "written"

\* a call without a stale copy to fall back on is over only after a
\* response it took for a success or, in tryPublicFetchOrCached, after a
\* 404; it never rejects
ReturnsOnAnswerOnly ==
    \A n \in DOMAIN tasks :
        tasks[n].existing = NoFile
            => /\ tasks[n].pc # "failed"
               /\ tasks[n].pc = "done" => tasks[n].how \in {"fetched", "written", "notfound"}

\* C19: when the event loop is fair and every URL answers 200 after finitely
\* many failed requests, each call of the three retry loops that is made
\* returns, and the run ends; and a call that found no cached copy never
\* rejects and returns only on a response (a success, or the 404 that
\* tryPublicFetchOrCached gives up on), so it is still fetching or sleeping
\* as long as its URL fails otherwise.
C19_RetryLiveness ==
    /\ []ReturnsOnAnswerOnly
    /\ \A n \in 1..MaxCalls :
          (gone = None /\ n \in DOMAIN tasks) ~> (n \in DOMAIN tasks /\ tasks[n].pc = "done")
    /\ (gone = None /\ phase # "off") ~> (phase = "off" /\ outcome = "done")

\* a call that found no cached copy returned after its request had failed
\* and it had slept, in a run against an upstream that lacks no URL
C19_Witness ==
    \E n \in DOMAIN tasks :
        /\ gone = None
        /\ tasks[n].existing = NoFile
        /\ tasks[n].slept = <<250>>
        /\ tasks[n].pc = "done" /\ tasks[n].how = "written"

\* the literal pat occurs in s
Occurs(s, pat) == IndexOf(s, pat) # 0

\* the references of the stylesheet that are neither data: URIs nor anchors
Inlinable(rs) == {k \in DOMAIN rs : rs[k].target[1] \notin {cData, cHash}}

\* C20: when embedCssUrls has returned, every reference of the stylesheet
\* that is neither a data: URI nor starts with "#", bare or quoted, has been
\* replaced by the data: URL of its fetched bytes and does not occur in the
\* output any more, and every sub-resource that was fetched is inlined.
C20_CssInlined ==
    em.pc = "done" =>
        /\ \A k \in Inlinable(em.refs) :
              /\ ~Occurs(em.out, RefText(em.refs[k]))
              /\ \E g \in em.got : g.url = em.refs[k].target /\ Occurs(em.out, DataUrl(g.mime, g.url))
        /\ \A g \in em.got : Occurs(em.out, DataUrl(g.mime, g.url))

\* the element of the head is handed to cacheResourceFile: neither the
\* font stylesheet nor the script below /cdn-cgi/
Routed(u) == u[1] \notin {"fonts", "cfjs"}

\* how many of the first n elements of els are handed to cacheResourceFile
RoutedAmong(els, n) == Cardinality({k \in 1..n : k <= Len(els) /\ Routed(els[k])})

\* the routed elements before element n of els have their returned paths,
\* which name files of the output directory, and the elements from n on
\* are untouched
Rewritten(els, now, n) ==
    \A k \in DOMAIN els :
        IF k >= n THEN now[k] = els[k]
        ELSE Routed(els[k]) => now[k] \in DOMAIN fs

\* at most one call is in flight, it is the call for element n of els, and
\* the calls that returned are those for the routed elements before it,
\* behind the calls that returned earlier
Calling(els, n, calls) ==
    /\ Len(tasks) <= 1
    /\ tasks # <<>> => (n <= Len(els) /\ tasks[1].fn = "cache" /\ tasks[1].url = els[n])
    /\ Len(doc.hows) = calls + RoutedAmong(els, n - 1)

\* C21: the stylesheets and then the scripts of the head go through
\* cacheResourceFile one at a time in document order, index.html is written
\* only when each of these calls has returned, and it is written with
\* references that all name files of the output directory.
C21_RewriteOrder ==
    /\ [](phase = "styles" =>
            /\ Calling(StyleLinks(doc.body), doc.n, 0)
            /\ Rewritten(StyleLinks(doc.body), doc.links, doc.n)
            /\ doc.scripts = HeadScripts(doc.body))
    /\ [](phase = "scripts" =>
            /\ Calling(HeadScripts(doc.body), doc.n, RoutedAmong(StyleLinks(doc.body), Len(doc.links)))
            /\ Rewritten(StyleLinks(doc.body), doc.links, Len(doc.links) + 1)
            /\ Rewritten(HeadScripts(doc.body), doc.scripts, doc.n))
    /\ [](phase = "index" =>
            /\ tasks = <<>>
            /\ Calling(HeadScripts(doc.body), Len(doc.scripts) + 1, RoutedAmong(StyleLinks(doc.body), Len(doc.links)))
            /\ Rewritten(StyleLinks(doc.body), doc.links, Len(doc.links) + 1)
            /\ Rewritten(HeadScripts(doc.body), doc.scripts, Len(doc.scripts) + 1)
            /\ fs[<<sIndexHtml>>] \in {Partial(Html(doc)), Html(doc)})
    /\ [][(<<sIndexHtml>> \in DOMAIN fs'
            /\ (<<sIndexHtml>> \in DOMAIN fs => fs'[<<sIndexHtml>>] # fs[<<sIndexHtml>>]))
          => phase' = "index" \/ phase = "index"]_vars

\* index.html is written whole after three calls of cacheResourceFile
\* returned, the third of which wrote the file of map.min.js
C21_Witness ==
    /\ phase = "world"
    /\ Len(doc.hows) = 3 /\ doc.hows[3] = "written"
    /\ fs[<<sIndexHtml>>] = Html(doc)
    /\ \E k \in DOMAIN doc.scripts : doc.scripts[k] = Js2Path(0)

\* C22: a call of tryPublicFetchOrCached that took the reuse branch or the
\* stale fallback has a file at its target path: the Cache Index matched
\* the file of that name, not a file with another name.
C22_ReuseReadsTarget ==
    \A n \in DOMAIN tasks :
        (tasks[n].fn = "public" /\ tasks[n].how \in {"reused", "stale"})
            => /\ Filepath(tasks[n].url) \in DOMAIN fs
               /\ tasks[n].existing = Filepath(tasks[n].url)[Len(Filepath(tasks[n].url))]

\* the URL whose response the content c was made from
RECURSIVE SourceUrl(_)
SourceUrl(c) ==
    CASE c[1] = "body" -> c[2]
      [] c[1] \in {"part", "inl", "rw"} -> SourceUrl(c[2])
      [] OTHER -> None

\* C23: the file that the path returned by cacheResourceFile(url, ...) names
\* holds content made from the response for url, of this run or of an
\* earlier one, also when another URL of the prefix has the same sanitized
\* name.
C23_ReturnedPathOfUrl ==
    \A n \in DOMAIN tasks :
        (tasks[n].fn = "cache" /\ tasks[n].pc = "done")
            => /\ tasks[n].out \in DOMAIN fs
               /\ SourceUrl(fs[tasks[n].out]) = tasks[n].url
====
